---- MODULE Spec2Model ----
(***************************************************************************)
(* Receding-horizon loop of the GP-MPC engine (gp_mpc/mpc_class.py,        *)
(* MPC.solve) for a scalar plant (Ny = Nu = 1).                            *)
(*                                                                         *)
(* The NLP solver, the plant simulator, the linearisation routine of the   *)
(* transition model and scipy's Riccati solver are collaborators: their    *)
(* answers are drawn from small sets.  Everything MPC.solve itself does    *)
(* with those answers is translated statement by statement.                *)
(*                                                                         *)
(* Two engines built by the same constructor call are run side by side:    *)
(* eng receives every solve call, ref is a newly constructed engine that   *)
(* receives only the current call, with the same arguments and the same    *)
(* collaborator answers.                                                   *)
(*                                                                         *)
(* Two further specifications share the module: GpSpec, the GP model       *)
(* object of gp_mpc/gp_class.py (set_method, predict, discrete_linearize,  *)
(* save_model / load_model) over exact rationals, and BuildSpec, one       *)
(* MPC(...) constructor call and the NLP it assembles, with casadi         *)
(* expressions as terms.  The functions made by build_gp and               *)
(* gp_exact_moment and the bundle returned by train_gp are stand-ins.      *)
(***************************************************************************)
EXTENDS Integers, Sequences, FiniteSets, TLC

VARIABLES
    cfg,          \* constructor arguments kept by __init__ (immutable)
    eng,          \* the engine: attributes of self and the frame of solve
    ref,          \* a newly constructed engine given the current call only
    call,         \* arguments of the current solve invocation
    lin,          \* answer of linearisation + lqr in the current invocation
    solLog,       \* solver answers of this invocation, in order
    argLog,       \* solver inputs of this invocation, in order
    simLog,       \* plant calls of this invocation: [t, x, u, ok, out]
    printed,      \* last status line printed by the loop
    gp,           \* a GP model object (gp_class.GP)
    gpcall,       \* last call on gp: operation, arguments, gp before it, result
    mpc           \* outcome of the last MPC(...) constructor call

solveVars == <<cfg, eng, ref, call, lin, solLog, argLog, simLog, printed>>
gpVars    == <<gp, gpcall>>
vars      == <<cfg, eng, ref, call, lin, solLog, argLog, simLog, printed,
               gp, gpcall, mpc>>

----------------------------------------------------------------------------
(* Bounds of the model *)

MaxSimTime == 2

(* Values the collaborators and the caller may supply *)
StateVals      == {0, 1}
SamplingTimes  == {1, 2}
Horizons       == {4}
Statuses       == {"Solve_Succeeded", "Infeasible_Problem_Detected"}
SolChoices     == {0, 1}

Ny == 1
Nu == 1

----------------------------------------------------------------------------
(* Decision-variable struct: mean, covariance, L repeat Nt+1 times, v Nt   *)
(* times, eps Nt+1 times.                                                  *)

var(c, z) ==
    [ mean       |-> [i \in 0..c.Nt |-> z],
      covariance |-> [i \in 0..c.Nt |-> z],
      L          |-> [i \in 0..c.Nt |-> z],
      v          |-> [i \in 0..(c.Nt - 1) |-> z],
      eps        |-> [i \in 0..c.Nt |-> z] ]

num_var(c) == (c.Nt + 1) * (Ny + Ny * Ny + ((Ny * Ny - Ny) \div 2 + Ny) + 1) + c.Nt * Nu

NoStruct == [mean |-> <<>>, covariance |-> <<>>, L |-> <<>>, v |-> <<>>, eps |-> <<>>]

(* Number of constraint rows of the NLP built with the default bounds and  *)
(* no terminal or extra constraints: the two initial equalities, and per   *)
(* horizon step the continuity equalities, the two chance constraints per  *)
(* state and the two box rows per input.                                   *)
num_con(c) == (Ny + Ny * Ny) + c.Nt * ((Ny + Ny * Ny) + 2 * Ny + 2 * Nu)

(* Optional arguments: <<>> is None, <<x>> is the value x. *)
OptInputs == {<<>>, <<1>>}
OptRefs   == {<<>>}
ConParFuncs == { [x \in StateVals |-> x + 1] }
OptConParFuncs(c) == IF c.num_con_par > 0 THEN {<<>>} \cup {<<f>> : f \in ConParFuncs}
                     ELSE {<<>>}

(* Answers of lqr(A, B, Q, R) for the (A, B) the lineariser returns. *)
LqrAnswers == { [K |-> -1, P |-> 2], [K |-> -2, P |-> 3] }
NoLqr      == [K |-> 0, P |-> 0]

(* Answers of the NLP solver: a status string, a solution struct and the   *)
(* multipliers.  The entries of one answer differ from each other so that  *)
(* a mixed-up index or field shows.                                        *)
SolverAnswer(c, st, a) ==
    LET b == 1 - a IN
    [ status |-> st,
      x      |-> [ mean       |-> [i \in 0..c.Nt |-> a + i],
                   covariance |-> [i \in 0..c.Nt |-> b],
                   L          |-> [i \in 0..c.Nt |-> b + i],
                   v          |-> [i \in 0..(c.Nt - 1) |-> a - i],
                   eps        |-> [i \in 0..c.Nt |-> 0] ],
      lam_x  |-> [i \in 1..num_var(c) |-> 1 + a],
      lam_g  |-> [i \in 1..num_con(c) |-> 1 + b] ]

SolverAnswers(c) ==
    { SolverAnswer(c, st, a) : st \in Statuses, a \in SolChoices }

(* Answers of model.sim: the next state, or RuntimeError (ok = FALSE). *)
SimAnswers == { [ok |-> TRUE, x |-> x] : x \in StateVals } \cup { [ok |-> FALSE, x |-> 0] }

Configs ==
    { [ dt |-> dt, Nt |-> h \div dt, num_con_par |-> n, feedback |-> fb, P |-> 1 ] :
        dt \in SamplingTimes, h \in Horizons, n \in {0, 1}, fb \in BOOLEAN }

----------------------------------------------------------------------------
(* The engine after MPC.__init__: the first-horizon snapshots are zero,    *)
(* __mean is None, the other attributes of solve do not exist yet.         *)

NoParam == [mean_0 |-> 0, mean_ref |-> 0, covariance_0 |-> 0, u_0 |-> 0,
            K |-> 0, P |-> 0, con_par |-> <<>>]
NoArgs  == [x0 |-> NoStruct, lam_x0 |-> <<>>, lam_g0 |-> <<>>, p |-> NoParam]
NoReturn == [returned |-> FALSE, mean |-> <<>>, u |-> <<>>]

(* Locals of solve; they do not outlive the call. *)
NoLocals ==
    [ t |-> 0, x0 |-> 0, u0 |-> 0, K |-> 0, P |-> 0, con_par_func |-> <<>>,
      args |-> NoArgs, optvar |-> NoStruct, v |-> 0 ]

Constructed(c) ==
    [ pc              |-> "idle",
      err             |-> "none",
      loc             |-> NoLocals,
      x_sp            |-> 0,
      Nsim            |-> 0,
      mean            |-> <<>>,
      mean_pred       |-> <<>>,
      covariance      |-> <<>>,
      u               |-> <<>>,
      var_init        |-> NoStruct,
      lam_x0          |-> <<>>,
      lam_g0          |-> <<>>,
      K               |-> 0,
      var_prediction  |-> [i \in 0..c.Nt |-> 0],
      mean_prediction |-> [i \in 0..c.Nt |-> 0],
      lin_at          |-> <<>>,
      ret             |-> NoReturn ]

OptVal(opt, default) == IF opt = <<>> THEN default ELSE opt[1]

----------------------------------------------------------------------------
(* MPC.solve, lines 434-497: argument defaults, allocation of the          *)
(* histories, warm start and multipliers, linearisation and LQR gain.      *)

(* np.full((Nsim + 1, Ny), x0) and its siblings, then the row-0 writes.    *)
InitHistory(e, cl, Nsim) ==
    LET u0 == OptVal(cl.u0, 0) IN
    [ e EXCEPT !.x_sp       = OptVal(cl.x_sp, 0),
               !.Nsim       = Nsim,
               !.mean       = [i \in 0..Nsim |-> cl.x0],
               !.mean_pred  = [i \in 0..Nsim |-> cl.x0],
               !.covariance = [i \in 0..Nsim |-> 0],
               !.u          = [i \in 0..(Nsim - 1) |-> u0] ]

(* self.__var_init = self.__var(0); covariance[0]; zero multipliers.       *)
(* lam_g0 is the scalar 0, which the solver broadcasts.                    *)
InitWarmStart_KeepPrevious(e, c) ==
    IF e.var_init = NoStruct
    THEN [ e EXCEPT !.var_init = [var(c, 0) EXCEPT !.covariance[0] = e.covariance[0]],
                    !.lam_x0   = [i \in 1..num_var(c) |-> 0],
                    !.lam_g0   = <<0>> ]
    ELSE e

InitWarmStart(e, c) ==
    [ e EXCEPT !.var_init = [var(c, 0) EXCEPT !.covariance[0] = e.covariance[0]],
               !.lam_x0   = [i \in 1..num_var(c) |-> 0],
               !.lam_g0   = <<0>> ]

(* Linearise around (x0, u0) and take the LQR gain, or K = 0 and the       *)
(* constructor's P without feedback.                                       *)
Linearize_KeepConstructorP(e, c, ln) ==
    IF c.feedback
    THEN [ e EXCEPT !.loc.K = ln.K, !.loc.P = c.P, !.K = ln.K,
                    !.lin_at = Append(e.lin_at, <<e.loc.x0, e.loc.u0>>) ]
    ELSE [ e EXCEPT !.loc.K = 0, !.loc.P = c.P, !.K = 0 ]

Linearize(e, c, ln) ==
    IF c.feedback
    THEN [ e EXCEPT !.loc.K = ln.K, !.loc.P = ln.P, !.K = ln.K,
                    !.lin_at = Append(e.lin_at, <<e.loc.x0, e.loc.u0>>) ]
    ELSE [ e EXCEPT !.loc.K = 0, !.loc.P = c.P, !.K = 0 ]

solve_init(e, c, cl, ln) ==
    LET Nsim == cl.sim_time \div c.dt
        e0   == [ e EXCEPT !.pc = "init", !.err = "none", !.ret = NoReturn,
                           !.lin_at = <<>>,
                           !.loc = [ NoLocals EXCEPT !.x0 = cl.x0,
                                                     !.u0 = OptVal(cl.u0, 0),
                                                     !.con_par_func = cl.con_par_func ] ]
        e1   == InitHistory(e0, cl, Nsim)
    IN  IF Nsim = 0
        THEN \* self.__u[0] = u0 on an array without rows: IndexError
             [ e1 EXCEPT !.pc = "error", !.err = "IndexError", !.loc = NoLocals ]
        ELSE [ Linearize(InitWarmStart(e1, c), c, ln) EXCEPT !.pc = "prepare" ]

----------------------------------------------------------------------------
(* MPC.solve, lines 498-529: loop head, measurement update of the warm     *)
(* start, constraint parameters, parameter vector and solver arguments.    *)

Return(e, pc) ==
    [ e EXCEPT !.pc = pc, !.loc = NoLocals,
               !.ret = [returned |-> TRUE, mean |-> e.mean, u |-> e.u] ]

Raise(e, err) == [ e EXCEPT !.pc = "error", !.err = err, !.loc = NoLocals ]

(* ca.vertcat(mean[t], x_sp, covariance[t], u0, K, P, con_par) *)
BuildParam(e, con_par) ==
    [ mean_0       |-> e.mean[e.loc.t],
      mean_ref     |-> e.x_sp,
      covariance_0 |-> e.covariance[e.loc.t],
      u_0          |-> e.loc.u0,
      K            |-> e.loc.K,
      P            |-> e.loc.P,
      con_par      |-> con_par ]

BuildArgs(e, param) ==
    [ x0 |-> e.var_init, lam_x0 |-> e.lam_x0, lam_g0 |-> e.lam_g0, p |-> param ]

UpdateMeasurement(e) ==
    [ e EXCEPT !.var_init.mean[0] = e.mean[e.loc.t] ]

LoopDone_OneMore(e) == e.loc.t > e.Nsim

LoopDone(e) == e.loc.t >= e.Nsim

(* con_par_func(mean[t]) when a function is given, else the empty list. *)
con_par(e) ==
    IF e.loc.con_par_func # <<>>
    THEN << e.loc.con_par_func[1][e.mean[e.loc.t]] >>
    ELSE <<>>

ConParMissing_AfterFirstStep(e, c) ==
    e.loc.con_par_func = <<>> /\ c.num_con_par > 0 /\ e.loc.t > 0

ConParMissing(e, c) == e.loc.con_par_func = <<>> /\ c.num_con_par > 0

solve_prepare(e, c) ==
    IF LoopDone(e)
    THEN Return(e, "done")
    ELSE LET e1 == UpdateMeasurement(e) IN
         IF ConParMissing(e1, c)
         THEN Raise(e1, "TypeError")
         ELSE [ e1 EXCEPT !.pc = "solve",
                          !.loc.args = BuildArgs(e1, BuildParam(e1, con_par(e1))) ]

(* Lines 531-541: the solver call; the solution replaces the warm start    *)
(* and the multipliers whatever the return status is.                      *)
WarmStart_OnlyOnSuccess(e, sol) ==
    IF sol.status = "Solve_Succeeded"
    THEN [ e EXCEPT !.loc.optvar = sol.x, !.var_init = sol.x,
                    !.lam_x0 = sol.lam_x, !.lam_g0 = sol.lam_g ]
    ELSE [ e EXCEPT !.loc.optvar = sol.x ]

WarmStart_KeepMultipliers(e, sol) ==
    [ e EXCEPT !.loc.optvar = sol.x, !.var_init = sol.x ]

WarmStart(e, sol) ==
    [ e EXCEPT !.loc.optvar = sol.x,
               !.var_init   = sol.x,
               !.lam_x0     = sol.lam_x,
               !.lam_g0     = sol.lam_g ]

solve_nlp(e, sol) == [ WarmStart(e, sol) EXCEPT !.pc = "extract" ]

(* Lines 543-562: first-horizon snapshot at t = 0, first-step control,     *)
(* one-step-ahead prediction.                                              *)
L_to_cov(l) == l * l

u_func(c, mean, v, K) == IF c.feedback THEN v + K * mean ELSE v

Snapshot(e, c) ==
    IF e.loc.t = 0
    THEN [ e EXCEPT !.var_prediction  = [i \in 0..c.Nt |-> L_to_cov(e.loc.optvar.L[i])],
                    !.mean_prediction = [i \in 0..c.Nt |-> e.loc.optvar.mean[i]] ]
    ELSE e

FirstControl_Second(optvar) == optvar.v[1]

FirstControl(optvar) == optvar.v[0]

OneStepCovariance_Raw(optvar) == optvar.covariance[1]

OneStepCovariance(optvar) == L_to_cov(optvar.L[1])

solve_extract(e, c) ==
    LET e1 == Snapshot(e, c)
        t  == e1.loc.t
        v  == FirstControl(e1.loc.optvar)
    IN  [ e1 EXCEPT !.pc = "simulate",
                    !.loc.v = v,
                    !.u[t] = u_func(c, e1.mean[t], v, e1.loc.K),
                    !.mean_pred[t + 1] = e1.loc.optvar.mean[1],
                    !.covariance[t + 1] = OneStepCovariance(e1.loc.optvar) ]

(* Lines 564-576: the plant step; RuntimeError returns the histories. *)
Unstable_Swallowed(e) ==
    [ e EXCEPT !.pc = "prepare", !.loc.t = e.loc.t + 1 ]

Unstable_Truncating(e) ==
    [ e EXCEPT !.pc = "aborted", !.loc = NoLocals,
               !.ret = [returned |-> TRUE,
                        mean |-> [i \in 0..e.loc.t |-> e.mean[i]],
                        u    |-> [i \in 0..e.loc.t |-> e.u[i]]] ]

Unstable(e) == Return(e, "aborted")

NextOperatingPoint_Relinearize(e) ==
    [ e EXCEPT !.loc.x0 = e.mean[e.loc.t + 1],
               !.loc.u0 = e.u[e.loc.t],
               !.loc.t  = e.loc.t + 1,
               !.lin_at = Append(e.lin_at, <<e.mean[e.loc.t + 1], e.u[e.loc.t]>>) ]

NextOperatingPoint_StaleControl(e) ==
    [ e EXCEPT !.loc.x0 = e.mean[e.loc.t + 1],
               !.loc.t  = e.loc.t + 1 ]

NextOperatingPoint(e) ==
    [ e EXCEPT !.loc.x0 = e.mean[e.loc.t + 1],
               !.loc.u0 = e.u[e.loc.t],
               !.loc.t  = e.loc.t + 1 ]

solve_simulate(e, out) ==
    IF out.ok
    THEN [ NextOperatingPoint([ e EXCEPT !.mean[e.loc.t + 1] = out.x ])
             EXCEPT !.pc = "prepare" ]
    ELSE Unstable(e)

----------------------------------------------------------------------------
(* GP model wrapper (gp_mpc/gp_class.py) for one output, one input and two *)
(* training rows.  Floating-point numbers are exact rationals [n, d] in    *)
(* lowest terms with d > 0.                                                *)

RECURSIVE GCD(_, _)
GCD(a, b) == IF b = 0 THEN a ELSE GCD(b, a % b)

Abs(a) == IF a < 0 THEN -a ELSE a

Q(n, d) ==
    LET g == GCD(Abs(n), Abs(d))
        s == IF d < 0 THEN -1 ELSE 1
    IN  [n |-> s * (n \div g), d |-> s * (d \div g)]

QInt(k)    == [n |-> k, d |-> 1]
QAdd(a, b) == Q(a.n * b.d + b.n * a.d, a.d * b.d)
QSub(a, b) == Q(a.n * b.d - b.n * a.d, a.d * b.d)
QMul(a, b) == Q(a.n * b.n, a.d * b.d)
QDiv(a, b) == Q(a.n * b.d, a.d * b.n)
QAbs(a)    == [n |-> Abs(a.n), d |-> a.d]

(* np.mean(Y, 0) and np.std(Y, 0) of a column of two rows: the population  *)
(* standard deviation of {a, b} is |a - b| / 2.                            *)
np_mean(Y) == QDiv(QAdd(Y[1], Y[2]), QInt(Len(Y)))
np_std(Y)  == QDiv(QAbs(QSub(Y[1], Y[2])), QInt(Len(Y)))

(* Training sets (X rows are <<x, u>>, Y rows are the next state), the     *)
(* values predict and discrete_linearize are called with, and the method   *)
(* names a caller may pass.                                                *)
TrainSets ==
    { [X |-> <<<<QInt(0), QInt(0)>>, <<QInt(2), QInt(1)>>>>, Y |-> <<QInt(-1), QInt(1)>>],
      [X |-> <<<<QInt(0), QInt(1)>>, <<QInt(2), QInt(0)>>>>, Y |-> <<QInt(0), QInt(4)>>] }
GpStates    == {QInt(1), QInt(2)}
GpInputs    == {QInt(0), QInt(1)}
GpCovs      == {QInt(0), QInt(1)}
GpMethods   == {"ME", "TA", "EM", "old_ME", "old_TA"}
MethodNames == GpMethods \cup {"XX"}
MeanFuncs   == {"zero"}

(* train_gp: the hyper-parameter bundle fitted to the stored data; a       *)
(* caller may instead pass a bundle of their own.                          *)
train_gp(X, Y) == [noise_var |-> QInt(1)]
OptHypers      == {<<>>, [noise_var |-> QInt(2)]}

(* The casadi functions set_method builds, by variant: mean and covariance *)
(* of the standardized model at (x, u) with input covariance cov, and the  *)
(* Jacobians of that mean.                                                 *)
PredictFn(variant, hyper, x, u, cov) ==
    LET m  == QAdd(QMul(x, x), u)
        jx == QMul(QInt(2), x)
    IN  CASE variant \in {"ME", "old_ME"} ->
                [mean |-> m, cov |-> hyper.noise_var]
          [] variant \in {"TA", "old_TA"} ->
                [mean |-> m, cov |-> QAdd(hyper.noise_var, QMul(QMul(jx, jx), cov))]
          [] OTHER ->
                [mean |-> QAdd(m, cov), cov |-> QAdd(hyper.noise_var, cov)]

JacX(variant, hyper, x, u, cov) == QMul(QInt(2), x)
JacU(variant, hyper, x, u, cov) == QInt(1)

NoGP ==
    [ X |-> <<>>, Y |-> <<>>, meanY |-> QInt(0), stdY |-> QInt(1),
      mean_func |-> "", normalize |-> FALSE, gp_method |-> "", hyper |-> <<>>,
      predict |-> "", discrete_jac_x |-> "", discrete_jac_u |-> "" ]

standardize_NoShift(g, Y) == QDiv(Y, g.stdY)

standardize(g, Y) == QDiv(QSub(Y, g.meanY), g.stdY)

inverse_mean(g, Y) == QAdd(QMul(Y, g.stdY), g.meanY)

inverse_covariance(g, covariance) == covariance

(* set_method(gp_method): the result is the object after the call and the *)
(* exception raised, "" when none.                                         *)
set_method(g, gp_method) ==
    LET named == [g EXCEPT !.gp_method = gp_method]
    IN  IF gp_method \in GpMethods
        THEN [ gp  |-> [named EXCEPT !.predict = gp_method,
                                     !.discrete_jac_x = gp_method,
                                     !.discrete_jac_u = gp_method],
               err |-> "" ]
        ELSE [ gp |-> named, err |-> "NameError" ]

(* GP(X, Y, mean_func, gp_method, hyper=hyper, normalize=normalize): no    *)
(* object exists when set_method raises.  The constructor works on copies  *)
(* of X and Y; fields X and Y of the result are the caller's arrays after  *)
(* the call.                                                               *)
GP_init(X, Y, mean_func, gp_method, hyper, normalize) ==
    LET stats == [NoGP EXCEPT !.meanY = np_mean(Y), !.stdY = np_std(Y)]
        Ys    == IF normalize THEN [i \in DOMAIN Y |-> standardize(stats, Y[i])] ELSE Y
        Xs    == IF normalize
                 THEN [i \in DOMAIN X |-> <<standardize(stats, X[i][1]), X[i][2]>>]
                 ELSE X
        self  == [stats EXCEPT !.X = Xs, !.Y = Ys, !.mean_func = mean_func,
                               !.normalize = normalize, !.gp_method = gp_method,
                               !.hyper = IF hyper = <<>> THEN train_gp(Xs, Ys) ELSE hyper]
        built == set_method(self, gp_method)
    IN  [ gp  |-> IF built.err = "" THEN built.gp ELSE NoGP,
          err |-> built.err, X |-> X, Y |-> Y ]

predict_Raw(g, x, u, cov) ==
    LET out == PredictFn(g.predict, g.hyper, x, u, cov)
    IN  [ gp |-> g, fn_in |-> <<x, u, cov>>,
          mean |-> IF g.normalize THEN inverse_mean(g, out.mean) ELSE out.mean,
          cov  |-> IF g.normalize THEN inverse_covariance(g, out.cov) ELSE out.cov ]

predict(g, x, u, cov) ==
    LET x_s == IF g.normalize THEN standardize(g, x) ELSE x
        out == PredictFn(g.predict, g.hyper, x_s, u, cov)
    IN  [ gp |-> g, fn_in |-> <<x_s, u, cov>>,
          mean |-> IF g.normalize THEN inverse_mean(g, out.mean) ELSE out.mean,
          cov  |-> IF g.normalize THEN inverse_covariance(g, out.cov) ELSE out.cov ]

discrete_linearize(g, x0, u0, cov0) ==
    [ gp |-> g, fn_in |-> <<x0, u0, cov0>>,
      Ad |-> JacX(g.discrete_jac_x, g.hyper, x0, u0, cov0),
      Bd |-> JacU(g.discrete_jac_u, g.hyper, x0, u0, cov0) ]

(* save_model / load_model: the dict of __to_dict written as a JSON object *)
(* (a list of key/value pairs) and read back into the constructor's        *)
(* keyword arguments; gp_method is not among them and takes its default.   *)
to_dict(g) ==
    [ X |-> g.X, Y |-> g.Y, hyper |-> g.hyper,
      mean_func |-> g.mean_func, normalize |-> g.normalize ]

json_dump(d) ==
    << <<"X", d.X>>, <<"Y", d.Y>>, <<"hyper", d.hyper>>,
       <<"mean_func", d.mean_func>>, <<"normalize", d.normalize>> >>

json_load(file) ==
    [ k \in {file[i][1] : i \in DOMAIN file} |->
        file[CHOOSE i \in DOMAIN file : file[i][1] = k][2] ]

save_model(g) == json_dump(to_dict(g))

load_model(file) ==
    LET input_dict == json_load(file)
    IN  GP_init(input_dict.X, input_dict.Y, input_dict.mean_func, "TA",
                input_dict.hyper, input_dict.normalize)

NoGpCall ==
    [ op |-> "", args |-> <<>>, err |-> "", before |-> NoGP, fn_in |-> <<>>,
      mean |-> QInt(0), cov |-> QInt(0), Ad |-> QInt(0), Bd |-> QInt(0),
      loaded |-> NoGP, caller |-> <<>> ]

----------------------------------------------------------------------------
(* MPC.__init__ (gp_mpc/mpc_class.py, lines 24-396): the NLP it builds.    *)
(* casadi expressions are terms <<head, arguments...>>; ("var", name, t)   *)
(* is entry t of a decision-variable block, ("par", name) a parameter.     *)

MaxNt == 2

(* Bounds of rows and variables: a finite value or plus/minus infinity. *)
Fin(v) == [inf |-> 0, v |-> v]
PosInf == [inf |-> 1, v |-> 0]
NegInf == [inf |-> -1, v |-> 0]
zeros(n) == [i \in 1..n |-> Fin(0)]

(* Constructor arguments a caller may pass. *)
NoOpts     == [given |-> FALSE, expand |-> <<>>]
SolverOpts == {NoOpts} \cup {[given |-> TRUE, expand |-> e] : e \in {<<>>, <<FALSE>>, <<TRUE>>}}
CostFuncs  == {"quad", "sat", "XX"}
DiscreteMethods == {"gp", "rk4", "exact"}
TerminalConstraints == {<<>>, <<0>>, <<1>>}
StateBounds == {<<>>, <<2>>}

CtorArgs ==
    [ Nt : 1..MaxNt, discrete_method : DiscreteMethods, gp_method : {"TA", "ME"},
      solver_opts : SolverOpts, costFunc : CostFuncs,
      terminal_constraint : TerminalConstraints, feedback : BOOLEAN,
      xub : StateBounds, inequality_constraints : BOOLEAN ]

NoCtorArgs ==
    [ Nt |-> 0, discrete_method |-> "", gp_method |-> "", solver_opts |-> NoOpts,
      costFunc |-> "", terminal_constraint |-> <<>>, feedback |-> FALSE,
      xub |-> <<>>, inequality_constraints |-> FALSE ]

NoMPC ==
    [ pc |-> "none", err |-> "", args |-> NoCtorArgs, solver |-> FALSE,
      varlb |-> NoStruct, varub |-> NoStruct,
      con_eq |-> <<>>, con_eq_lb |-> <<>>, con_eq_ub |-> <<>>,
      con_ineq |-> <<>>, con_ineq_lb |-> <<>>, con_ineq_ub |-> <<>>,
      con |-> <<>>, conlb |-> <<>>, conub |-> <<>>, obj |-> <<>>,
      options |-> [expand |-> <<>>] ]

(* Symbols *)
mean_0_s       == <<"par", "mean_0">>
mean_ref_s     == <<"par", "mean_ref">>
u_0_s          == <<"par", "u_0">>
covariance_0_s == <<"par", "covariance_0">>
K_s            == <<"par", "K">>
P_s            == <<"par", "P">>
con_par_s      == <<"par", "con_par">>
Var(name, t)   == <<"var", name, t>>

(* Defaults of the state bounds (lines 109-112); xlb is left at its        *)
(* default, uub and ulb too.                                               *)
xub(a) == IF a.xub = <<>> THEN <<PosInf>> ELSE <<Fin(a.xub[1])>>
xlb(a) == <<NegInf>>
uub(a) == <<PosInf>>
ulb(a) == <<NegInf>>

(* Line 144: solver_opts['expand'] is read first, whatever the method. *)
check_expand(a) ==
    IF ~a.solver_opts.given THEN "TypeError"
    ELSE IF a.solver_opts.expand = <<>> THEN "KeyError"
    ELSE IF a.solver_opts.expand[1] # FALSE /\ a.discrete_method = "exact" THEN "TypeError"
    ELSE ""

set_cost_function_AnyName(costFunc) == ""

set_cost_function(costFunc) ==
    IF costFunc \in {"quad", "sat"} THEN "" ELSE "NameError"

cost_l(x, x_ref, covar_x, u, covar_u, delta_u) ==
    << "sum", <<"sqnorm_x", <<"sub", x, x_ref>>, "Q">>,
              <<"sqnorm_u", u, "R">>,
              <<"sqnorm_u", delta_u, "S">>,
              <<"trace_x", "Q", covar_x>>,
              <<"trace_u", "R", covar_u>> >>

cost_lf(x, x_ref, covar_x, P) ==
    << "sum", <<"sqnorm_x", <<"sub", x, x_ref>>, P>>, <<"trace_x", P, covar_x>> >>

cost_saturation_l(x, x_ref, covar_x, u, covar_u, delta_u) ==
    << "sum", <<"cost_x", <<"sub", x, x_ref>>, "Q", covar_x>>,
              <<"cost_u", u, "R", covar_u>> >>

cost_saturation_lf(x, x_ref, covar_x, P) ==
    << "sum", <<"cost_x", <<"sub", x, x_ref>>, P, covar_x>> >>

l_func(a, mean, covar_x, u, covar_u, delta_u) ==
    IF a.costFunc = "quad"
    THEN cost_l(mean, mean_ref_s, covar_x, u, covar_u, delta_u)
    ELSE cost_saturation_l(mean, mean_ref_s, covar_x, u, covar_u, delta_u)

lf_func(a, mean, covar_x, P) ==
    IF a.costFunc = "quad"
    THEN cost_lf(mean, mean_ref_s, covar_x, P)
    ELSE cost_saturation_lf(mean, mean_ref_s, covar_x, P)

(* Feedback function, covariance reconstruction and input covariance *)
u_sym(a, mean, v) ==
    IF a.feedback THEN <<"add", v, <<"mtimes", K_s, mean>>>> ELSE v

L_to_cov_func(L)     == <<"L_to_cov", L>>
covar_func(covar_x)  == <<"covar", covar_x, K_s>>
covar_u_func(covar_x) == <<"cov_u", covar_x, K_s>>

(* Bounds of the decision variables (lines 181-201) *)
varlb(a) ==
    [ var(a, NegInf) EXCEPT !.covariance = [t \in 0..a.Nt |-> Fin(0)],
                            !.L = [t \in 0..a.Nt |-> Fin(0)],
                            !.eps = [t \in 0..a.Nt |-> Fin(0)],
                            !.mean = [t \in 0..a.Nt |-> xlb(a)[1]] ]

varub(a) == [ var(a, PosInf) EXCEPT !.mean = [t \in 0..a.Nt |-> xub(a)[1]] ]

(* __constraint(mean, covar, H, quantile, ub, lb): for each state i the    *)
(* row H_i mean + r H_i diag(S) with r = quantile_i bounded above by ub_i  *)
(* and the row with r = -quantile_i bounded below by lb_i; S = covar.      *)
con_func(mean, S, i, r) == <<"add", <<"row", i, mean>>, <<"mul", r, <<"row", i, <<"diag", S>>>>>>>>

constraint_OnCovariance(mean, covar, ub, lb) ==
    [ con    |-> << con_func(mean, L_to_cov_func(covar), 1, "quantile"),
                    con_func(mean, L_to_cov_func(covar), 1, "-quantile") >>,
      con_lb |-> << NegInf, lb[1] >>,
      con_ub |-> << ub[1], PosInf >> ]

constraint(mean, covar, ub, lb) ==
    [ con    |-> << con_func(mean, covar, 1, "quantile"),
                    con_func(mean, covar, 1, "-quantile") >>,
      con_lb |-> << NegInf, lb[1] >>,
      con_ub |-> << ub[1], PosInf >> ]

(* Loop body, step t (lines 278-359) *)
mean_t(t)       == Var("mean", t)
u_t(a, t)       == u_sym(a, mean_t(t), Var("v", t))
covar_x_t(t)    == L_to_cov_func(Var("L", t))
covar_t(t)      == covar_func(covar_x_t(t))
cov_u(t)        == covar_u_func(covar_x_t(t))
L_x_next(t)     == Var("L", t + 1)
covar_x_next(t) == L_to_cov_func(L_x_next(t))

mean_next_pred(a, t) ==
    IF a.discrete_method = "rk4" THEN <<"rk4", mean_t(t), u_t(a, t)>>
    ELSE IF a.discrete_method = "exact" THEN <<"Integrator", mean_t(t), u_t(a, t)>>
    ELSE <<"gp.predict.mean", mean_t(t), u_t(a, t), covar_t(t)>>

covar_x_next_pred(a, t) ==
    IF a.discrete_method \in {"rk4", "exact"} THEN <<"zeros">>
    ELSE <<"gp.predict.cov", mean_t(t), u_t(a, t), covar_t(t)>>

(* u_past is set to the parameter u_0 before the loop; the last statement  *)
(* of the body assigns u_t, not u_past, so it keeps that value.            *)
RECURSIVE u_past(_, _)
u_past(a, t) == IF t = 0 THEN u_0_s ELSE u_past(a, t - 1)

u_delta(a, t) == <<"sub", u_t(a, t), u_past(a, t)>>

continuity_RawCovariance(a, t) ==
    << <<"sub", mean_next_pred(a, t), Var("mean", t + 1)>>,
       <<"sub", covar_x_next_pred(a, t), Var("covariance", t + 1)>> >>

continuity(a, t) ==
    << <<"sub", mean_next_pred(a, t), Var("mean", t + 1)>>,
       <<"sub", covar_x_next_pred(a, t), covar_x_next(t)>> >>

inequality_constraints(mean, covar, u, eps, par) ==
    [ con_ineq    |-> << <<"user", mean, covar, u, eps, par>> >>,
      con_ineq_lb |-> << NegInf >>,
      con_ineq_ub |-> << Fin(0) >> ]

step_ineq(a, t) ==
    LET cons  == constraint(Var("mean", t + 1), L_x_next(t), xub(a), xlb(a))
        extra == IF a.inequality_constraints
                 THEN inequality_constraints(Var("mean", t + 1), covar_x_next(t),
                                             u_t(a, t), Var("eps", t), con_par_s)
                 ELSE [con_ineq |-> <<>>, con_ineq_lb |-> <<>>, con_ineq_ub |-> <<>>]
    IN  [ con |-> cons.con \o <<u_t(a, t)>> \o <<u_t(a, t)>> \o extra.con_ineq,
          lb  |-> cons.con_lb \o <<NegInf>> \o ulb(a) \o extra.con_ineq_lb,
          ub  |-> cons.con_ub \o uub(a) \o <<PosInf>> \o extra.con_ineq_ub ]

step_obj(a, t) ==
    << l_func(a, Var("mean", t), covar_x_t(t), u_t(a, t), cov_u(t), u_delta(a, t)),
       <<"mul", "lam", Var("eps", t)>> >>

RECURSIVE Gather(_, _)
Gather(f, n) == IF n = 0 THEN <<>> ELSE Gather(f, n - 1) \o f[n - 1]

terminal_NoReference(a) ==
    IF a.terminal_constraint = <<>>
    THEN [con |-> <<>>, lb |-> <<>>, ub |-> <<>>]
    ELSE [ con |-> << Var("mean", a.Nt) >>,
           lb  |-> << Fin(-a.terminal_constraint[1]) >>,
           ub  |-> << Fin(a.terminal_constraint[1]) >> ]

terminal(a) ==
    IF a.terminal_constraint = <<>>
    THEN [con |-> <<>>, lb |-> <<>>, ub |-> <<>>]
    ELSE [ con |-> << <<"sub", Var("mean", a.Nt), mean_ref_s>> >>,
           lb  |-> << Fin(-a.terminal_constraint[1]) >>,
           ub  |-> << Fin(a.terminal_constraint[1]) >> ]

(* Options handed to nlpsol (lines 378-395): the defaults, with expand     *)
(* True, updated by the caller's dictionary when one is given.             *)
options(a) ==
    IF a.solver_opts.given /\ a.solver_opts.expand # <<>>
    THEN [expand |-> a.solver_opts.expand]
    ELSE [expand |-> <<TRUE>>]

(* Lines 170-396 for arguments that passed the checks. *)
build_nlp(a) ==
    LET con_eq   == << <<"sub", Var("mean", 0), mean_0_s>>,
                       <<"sub", Var("covariance", 0), covariance_0_s>> >>
                    \o Gather([t \in 0..(a.Nt - 1) |-> continuity(a, t)], a.Nt)
        term     == terminal(a)
        con_ineq == Gather([t \in 0..(a.Nt - 1) |-> step_ineq(a, t).con], a.Nt) \o term.con
        ineq_lb  == Gather([t \in 0..(a.Nt - 1) |-> step_ineq(a, t).lb], a.Nt) \o term.lb
        ineq_ub  == Gather([t \in 0..(a.Nt - 1) |-> step_ineq(a, t).ub], a.Nt) \o term.ub
        eq_lb    == zeros(Len(con_eq))
        eq_ub    == zeros(Len(con_eq))
    IN  [ pc |-> "built", err |-> "", args |-> a, solver |-> TRUE,
          varlb |-> varlb(a), varub |-> varub(a),
          con_eq |-> con_eq, con_eq_lb |-> eq_lb, con_eq_ub |-> eq_ub,
          con_ineq |-> con_ineq, con_ineq_lb |-> ineq_lb, con_ineq_ub |-> ineq_ub,
          con |-> con_eq \o con_ineq, conlb |-> eq_lb \o ineq_lb, conub |-> eq_ub \o ineq_ub,
          obj |-> Gather([t \in 0..(a.Nt - 1) |-> step_obj(a, t)], a.Nt)
                  \o << lf_func(a, Var("mean", a.Nt), Var("covariance", a.Nt), P_s) >>,
          options |-> options(a) ]

raised(a, err) == [NoMPC EXCEPT !.pc = "raised", !.err = err, !.args = a]

(* MPC(horizon, model, gp, ...): the GP object after the call and the     *)
(* outcome, in the order of the statements at lines 141-156.               *)
MPC_init(g, a) ==
    LET sm == IF a.discrete_method = "gp" THEN set_method(g, a.gp_method)
                                          ELSE [gp |-> g, err |-> ""]
    IN  [ gp  |-> sm.gp,
          mpc |-> IF sm.err # "" THEN raised(a, sm.err)
                  ELSE IF check_expand(a) # "" THEN raised(a, check_expand(a))
                  ELSE IF set_cost_function(a.costFunc) # ""
                       THEN raised(a, set_cost_function(a.costFunc))
                  ELSE build_nlp(a) ]

----------------------------------------------------------------------------
(* The two engines in lock step. *)

Init ==
    /\ cfg \in Configs
    /\ eng = Constructed(cfg)
    /\ ref = Constructed(cfg)
    /\ call = [x0 |-> 0, sim_time |-> 0, x_sp |-> <<>>, u0 |-> <<>>, con_par_func |-> <<>>]
    /\ lin = NoLqr
    /\ solLog = <<>>
    /\ argLog = <<>>
    /\ simLog = <<>>
    /\ printed = ""
    /\ gp = NoGP
    /\ gpcall = NoGpCall
    /\ mpc = NoMPC

Terminal(e) == e.pc \in {"done", "aborted", "error"}

(* solve(x0, sim_time, x_sp, u0, con_par_func=...) on eng; ref is built    *)
(* anew and given the same call.                                           *)
Solve ==
    /\ eng.pc = "idle" \/ Terminal(eng)
    /\ \E x0 \in StateVals, st \in 0..MaxSimTime, xsp \in OptRefs, u0 \in OptInputs,
          f \in OptConParFuncs(cfg),
          ln \in (IF cfg.feedback THEN LqrAnswers ELSE {NoLqr}) :
          LET cl == [x0 |-> x0, sim_time |-> st, x_sp |-> xsp, u0 |-> u0,
                     con_par_func |-> f]
          IN  /\ call' = cl
              /\ lin' = ln
              /\ eng' = solve_init(eng, cfg, cl, ln)
              /\ ref' = solve_init(Constructed(cfg), cfg, cl, ln)
    /\ solLog' = <<>>
    /\ argLog' = <<>>
    /\ simLog' = <<>>
    /\ UNCHANGED <<gpVars, mpc>>
    /\ UNCHANGED <<cfg, printed>>

Prepare ==
    /\ eng.pc = "prepare"
    /\ eng' = solve_prepare(eng, cfg)
    /\ ref' = IF ref.pc = "prepare" THEN solve_prepare(ref, cfg) ELSE ref
    /\ UNCHANGED <<gpVars, mpc>>
    /\ UNCHANGED <<cfg, call, lin, solLog, argLog, simLog, printed>>

SolverCall ==
    /\ eng.pc = "solve"
    /\ \E sol \in SolverAnswers(cfg) :
          /\ eng' = solve_nlp(eng, sol)
          /\ ref' = IF ref.pc = "solve" THEN solve_nlp(ref, sol) ELSE ref
          /\ solLog' = Append(solLog, [x |-> sol.x, lam_x |-> sol.lam_x, lam_g |-> sol.lam_g])
          /\ printed' = sol.status
    /\ argLog' = Append(argLog, eng.loc.args)
    /\ UNCHANGED <<gpVars, mpc>>
    /\ UNCHANGED <<cfg, call, lin, simLog>>

Extract ==
    /\ eng.pc = "extract"
    /\ eng' = solve_extract(eng, cfg)
    /\ ref' = IF ref.pc = "extract" THEN solve_extract(ref, cfg) ELSE ref
    /\ UNCHANGED <<gpVars, mpc>>
    /\ UNCHANGED <<cfg, call, lin, solLog, argLog, simLog, printed>>

Simulate ==
    /\ eng.pc = "simulate"
    /\ \E out \in SimAnswers :
          /\ eng' = solve_simulate(eng, out)
          /\ ref' = IF ref.pc = "simulate" THEN solve_simulate(ref, out) ELSE ref
          /\ simLog' = Append(simLog, [t |-> eng.loc.t, x |-> eng.mean[eng.loc.t], u |-> eng.u[eng.loc.t],
                                       ok |-> out.ok, out |-> out.x])
    /\ UNCHANGED <<gpVars, mpc>>
    /\ UNCHANGED <<cfg, call, lin, solLog, argLog, printed>>

Next == Solve \/ Prepare \/ SolverCall \/ Extract \/ Simulate

Spec == Init /\ [][Next]_vars

(* The calls return: every step of a running solve is eventually taken. *)
FairSpec ==
    Spec /\ WF_vars(Prepare) /\ WF_vars(SolverCall) /\ WF_vars(Extract) /\ WF_vars(Simulate)

----------------------------------------------------------------------------
(* The GP model object and its callers. *)

SolveIdle ==
    /\ cfg = CHOOSE c \in Configs : TRUE
    /\ eng = Constructed(cfg)
    /\ ref = Constructed(cfg)
    /\ call = [x0 |-> 0, sim_time |-> 0, x_sp |-> <<>>, u0 |-> <<>>, con_par_func |-> <<>>]
    /\ lin = NoLqr
    /\ solLog = <<>>
    /\ argLog = <<>>
    /\ simLog = <<>>
    /\ printed = ""

GpInit ==
    /\ SolveIdle
    /\ mpc = NoMPC
    /\ \E d \in TrainSets, m \in GpMethods, h \in OptHypers, f \in MeanFuncs,
          nz \in BOOLEAN :
          LET r == GP_init(d.X, d.Y, f, m, h, nz)
          IN  /\ gp = r.gp
              /\ gpcall = [NoGpCall EXCEPT !.op = "GP", !.args = <<d.X, d.Y, nz>>,
                                           !.err = r.err, !.caller = <<r.X, r.Y>>]

GpSetMethod ==
    /\ \E m \in MethodNames :
          LET r == set_method(gp, m)
          IN  /\ gp' = r.gp
              /\ gpcall' = [NoGpCall EXCEPT !.op = "set_method", !.args = <<m>>,
                                            !.err = r.err, !.before = gp]
    /\ UNCHANGED <<mpc, solveVars>>

GpPredict ==
    /\ \E x \in GpStates, u \in GpInputs, cov \in GpCovs :
          LET r == predict(gp, x, u, cov)
          IN  /\ gp' = r.gp
              /\ gpcall' = [NoGpCall EXCEPT !.op = "predict", !.args = <<x, u, cov>>,
                                            !.before = gp, !.fn_in = r.fn_in,
                                            !.mean = r.mean, !.cov = r.cov]
    /\ UNCHANGED <<mpc, solveVars>>

GpLinearize ==
    /\ \E x0 \in GpStates, u0 \in GpInputs, cov0 \in GpCovs :
          LET r == discrete_linearize(gp, x0, u0, cov0)
          IN  /\ gp' = r.gp
              /\ gpcall' = [NoGpCall EXCEPT !.op = "discrete_linearize",
                                            !.args = <<x0, u0, cov0>>,
                                            !.before = gp, !.fn_in = r.fn_in,
                                            !.Ad = r.Ad, !.Bd = r.Bd]
    /\ UNCHANGED <<mpc, solveVars>>

GpSaveLoad ==
    /\ LET r == load_model(save_model(gp))
       IN  gpcall' = [NoGpCall EXCEPT !.op = "load_model", !.before = gp,
                                      !.loaded = r.gp, !.err = r.err]
    /\ UNCHANGED <<gp, mpc, solveVars>>

GpNext == GpSetMethod \/ GpPredict \/ GpLinearize \/ GpSaveLoad

GpSpec == GpInit /\ [][GpNext]_vars

----------------------------------------------------------------------------
(* One constructor call MPC(...) on a GP model. *)

BuildInit ==
    /\ SolveIdle
    /\ \E d \in TrainSets, nz \in BOOLEAN : gp = GP_init(d.X, d.Y, "zero", "TA", <<>>, nz).gp
    /\ gpcall = NoGpCall
    /\ mpc = NoMPC

Construct ==
    /\ mpc.pc = "none"
    /\ \E a \in CtorArgs :
          LET r == MPC_init(gp, a)
          IN  /\ gp' = r.gp
              /\ mpc' = r.mpc
    /\ UNCHANGED <<gpcall, solveVars>>

BuildNext == Construct

BuildSpec == BuildInit /\ [][BuildNext]_vars

----------------------------------------------------------------------------
(* Abbreviations used by the properties *)

CallNsim  == call.sim_time \div cfg.dt
CallU0    == OptVal(call.u0, 0)
Running   == eng.pc \in {"prepare", "solve", "extract", "simulate"}
LastSim   == simLog[Len(simLog)]
AbortStep == LastSim.t

----------------------------------------------------------------------------
(* C1: when model.sim raises RuntimeError at real-time step k, that plant  *)
(* call is the last one of the run, solve has returned, and exactly k + 1  *)
(* solver calls (steps 0..k) have been made.                               *)
C1_AbortAtOnce ==
    \A i \in 1..Len(simLog) :
        ~simLog[i].ok =>
            /\ i = Len(simLog)
            /\ eng.pc = "aborted"
            /\ eng.ret.returned
            /\ simLog[i].t = i - 1
            /\ Len(solLog) = simLog[i].t + 1

C1_Witness ==
    /\ eng.pc = "aborted"
    /\ AbortStep = 1
    /\ CallNsim >= 2
    /\ Len(solLog) = 2

(* C2 as stated: after an abort at step k the returned histories have no   *)
(* rows beyond step k.                                                     *)
C2_Truncated ==
    eng.pc = "aborted" =>
        /\ \A i \in DOMAIN eng.ret.mean : i <= AbortStep
        /\ \A i \in DOMAIN eng.ret.u : i <= AbortStep

(* C2, amended: after an abort at step k the returned arrays keep their    *)
(* allocated length (Nsim + 1 state rows, Nsim control rows); rows 0..k    *)
(* hold what was accumulated (x0, the plant outputs of steps 0..k-1, the   *)
(* controls of steps 0..k) and every later row still holds its initial     *)
(* fill, x0 for the states and u0 for the controls.                        *)
C2_PaddedHistory ==
    eng.pc = "aborted" =>
        LET k == AbortStep
            r == eng.ret
        IN  /\ r.returned
            /\ DOMAIN r.mean = 0..CallNsim
            /\ DOMAIN r.u = 0..(CallNsim - 1)
            /\ r.mean[0] = call.x0
            /\ \A i \in 1..k : r.mean[i] = simLog[i].out
            /\ \A i \in 0..k : r.u[i] = simLog[i + 1].u
            /\ \A i \in (k + 1)..CallNsim : r.mean[i] = call.x0
            /\ \A i \in (k + 1)..(CallNsim - 1) : r.u[i] = CallU0

C2_Witness ==
    /\ eng.pc = "aborted"
    /\ AbortStep = 0
    /\ CallNsim = 2
    /\ eng.ret.mean[2] = call.x0
    /\ eng.ret.u[0] # CallU0
    /\ eng.ret.u[1] = CallU0

(* C3 as stated: a run ends DONE after exactly Nsim iterations or ABORTED  *)
(* on plant instability, and in no other way.                              *)
C3_TwoTerminalStates ==
    Terminal(eng) =>
        \/ /\ eng.pc = "done"
           /\ Len(solLog) = CallNsim
           /\ Len(simLog) = CallNsim
        \/ /\ eng.pc = "aborted"
           /\ ~LastSim.ok

(* C3, amended: a run ends DONE after exactly Nsim >= 1 iterations,        *)
(* ABORTED on plant instability, or with an exception raised before any    *)
(* solver call: IndexError when Nsim = 0, TypeError when the problem has   *)
(* constraint parameters and no con_par_func is given.  An iteration is    *)
(* one solver call followed by one plant call, step t being the (t+1)-th   *)
(* of each, there are never more than Nsim of them, and a running solve    *)
(* reaches one of the three terminal states.                               *)
C3_Shape ==
    /\ eng.pc \in {"idle", "prepare", "solve", "extract", "simulate",
                   "done", "aborted", "error"}
    /\ eng.pc # "idle" => eng.Nsim = CallNsim
    /\ Len(solLog) <= CallNsim
    /\ Len(simLog) <= Len(solLog)
    /\ Len(solLog) <= Len(simLog) + 1
    /\ \A i \in 1..Len(simLog) : simLog[i].t = i - 1
    /\ Running => eng.loc.t = Len(simLog)
    /\ eng.pc \in {"prepare", "solve"} => Len(solLog) = Len(simLog)
    /\ eng.pc \in {"extract", "simulate"} => Len(solLog) = Len(simLog) + 1
    /\ eng.pc = "done" =>
          /\ CallNsim >= 1
          /\ Len(solLog) = CallNsim
          /\ Len(simLog) = CallNsim
          /\ \A i \in 1..Len(simLog) : simLog[i].ok
          /\ eng.ret.returned
    /\ eng.pc = "aborted" =>
          /\ Len(solLog) = Len(simLog)
          /\ ~LastSim.ok
          /\ eng.ret.returned
    /\ eng.pc = "error" =>
          /\ Len(solLog) = 0
          /\ Len(simLog) = 0
          /\ ~eng.ret.returned
          /\ \/ eng.err = "IndexError" /\ CallNsim = 0
             \/ /\ eng.err = "TypeError"
                /\ CallNsim >= 1
                /\ cfg.num_con_par > 0
                /\ call.con_par_func = <<>>

C3_Terminates == [] C3_Shape /\ (Running ~> Terminal(eng))

C3_Witness ==
    /\ eng.pc = "done"
    /\ CallNsim = 2
    /\ Len(solLog) = 2
    /\ Len(simLog) = 2

----------------------------------------------------------------------------
(* C4: a solver call never ends the run, whatever status it returns: the   *)
(* call is followed by EXTRACT with the warm start and both multiplier     *)
(* vectors replaced by the returned ones and nothing else changed, the     *)
(* status is only printed, EXTRACT is followed by the plant step with the  *)
(* extracted control, and a plant step that succeeds leads to step t + 1;  *)
(* the run ends early only when the plant step fails.                      *)
C4_AfterSolve ==
    /\ eng.pc = "extract" =>
          /\ eng.var_init = solLog[Len(solLog)].x
          /\ eng.lam_x0 = solLog[Len(solLog)].lam_x
          /\ eng.lam_g0 = solLog[Len(solLog)].lam_g
          /\ printed \in Statuses
    /\ eng.pc = "simulate" =>
          eng.u[eng.loc.t] =
              solLog[Len(solLog)].x.v[0]
                + (IF cfg.feedback THEN eng.loc.K * eng.mean[eng.loc.t] ELSE 0)
    /\ eng.pc = "aborted" => ~LastSim.ok

C4_Step ==
    /\ eng.pc = "solve" =>
          eng' = [ eng EXCEPT !.pc = "extract",
                              !.loc.optvar = solLog'[Len(solLog')].x,
                              !.var_init = solLog'[Len(solLog')].x,
                              !.lam_x0 = solLog'[Len(solLog')].lam_x,
                              !.lam_g0 = solLog'[Len(solLog')].lam_g ]
    /\ eng.pc = "extract" => eng'.pc = "simulate"
    /\ eng.pc = "simulate" =>
          IF simLog'[Len(simLog')].ok
          THEN eng'.pc = "prepare" /\ eng'.loc.t = eng.loc.t + 1
          ELSE eng'.pc = "aborted"

C4_SolverFailureNotFatal == [] C4_AfterSolve /\ [][C4_Step]_vars

C4_Witness ==
    /\ eng.pc = "solve"
    /\ eng.loc.t = 1
    /\ printed = "Infeasible_Problem_Detected"
    /\ eng.loc.args.x0.v = solLog[1].x.v
    /\ eng.loc.args.lam_x0 = solLog[1].lam_x

----------------------------------------------------------------------------
(* C5: with num_con_par > 0 and no con_par_func, solve makes no solver     *)
(* call and ends with an exception, for every sim_time: the TypeError of   *)
(* the first loop iteration, or, when sim_time gives no iteration at all,  *)
(* the IndexError of the allocation.                                       *)
MissingConParFunc ==
    /\ eng.pc # "idle"
    /\ cfg.num_con_par > 0
    /\ call.con_par_func = <<>>

C5_NoSolve ==
    MissingConParFunc =>
        /\ Len(solLog) = 0
        /\ Len(simLog) = 0
        /\ \/ eng.pc = "prepare" /\ eng.loc.t = 0
           \/ eng.pc = "error" /\ eng.err = "TypeError" /\ CallNsim >= 1
           \/ eng.pc = "error" /\ eng.err = "IndexError" /\ CallNsim = 0

C5_FailsFast ==
    [] C5_NoSolve /\ ((MissingConParFunc /\ Running) ~> (eng.pc = "error"))

C5_Witness ==
    /\ MissingConParFunc
    /\ eng.pc = "error"
    /\ eng.err = "TypeError"
    /\ CallNsim = 2

----------------------------------------------------------------------------
(* Gain of the current invocation: the LQR answer, or 0 without feedback. *)
RunK == IF cfg.feedback THEN lin.K ELSE 0

(* C6 as stated: in feedback mode every step t has its own linearisation,  *)
(* taken at the newly measured state and the last applied control.         *)
C6_LinearizeEachStep ==
    (cfg.feedback /\ eng.pc = "solve") =>
        /\ Len(eng.lin_at) = eng.loc.t + 1
        /\ eng.lin_at[Len(eng.lin_at)] = <<eng.mean[eng.loc.t], eng.loc.u0>>

(* C6, amended: in feedback mode LINEARIZE runs once per solve call,       *)
(* before the loop, at the operating point (x0, u0) of the call; the one   *)
(* LQR gain K computed there is the gain parameter of every step's solve   *)
(* and the gain of every step's control law.  Without feedback nothing is  *)
(* linearised and the gain parameter is 0.                                 *)
C6_LinearizeOncePerSolve ==
    (eng.pc # "idle" /\ CallNsim >= 1) =>
        /\ eng.lin_at = (IF cfg.feedback THEN << <<call.x0, CallU0>> >> ELSE <<>>)
        /\ eng.K = RunK
        /\ Running => eng.loc.K = RunK
        /\ \A i \in 1..Len(argLog) : argLog[i].p.K = RunK
        /\ \A i \in 1..Len(simLog) :
              simLog[i].u = solLog[i].x.v[0] + (IF cfg.feedback THEN RunK * simLog[i].x ELSE 0)

C6_Witness ==
    /\ cfg.feedback
    /\ eng.pc = "extract"
    /\ eng.loc.t = 1
    /\ <<eng.mean[1], eng.loc.u0>> # <<call.x0, CallU0>>
    /\ Len(eng.lin_at) = 1
    /\ argLog[2].p.K = lin.K

----------------------------------------------------------------------------
(* C7: the control given to the plant at step t is the first-step          *)
(* perturbation v[0] of the solution of step t, plus K * mean[t] when      *)
(* feedback is enabled; it is what the control history keeps for step t,   *)
(* and mean[t] is the state the plant is stepped from.                     *)
C7_FirstControlOnly ==
    \A i \in 1..Len(simLog) :
        /\ simLog[i].x = (IF i = 1 THEN call.x0 ELSE simLog[i - 1].out)
        /\ simLog[i].u = (IF cfg.feedback
                          THEN solLog[i].x.v[0] + RunK * simLog[i].x
                          ELSE solLog[i].x.v[0])
        /\ eng.pc # "error" => eng.u[i - 1] = simLog[i].u

C7_Witness ==
    /\ cfg.feedback
    /\ Len(simLog) = 2
    /\ simLog[2].x # 0
    /\ simLog[2].u # solLog[2].x.v[0]
    /\ simLog[2].u = solLog[2].x.v[0] + lin.K * simLog[2].x

----------------------------------------------------------------------------
(* C8: the first solver call of a run starts from the all-zero struct with *)
(* mean[0] = x0 and from zero multipliers; every later call starts from    *)
(* the solution and the multipliers the previous call returned, with only  *)
(* mean[0] overwritten by the newly measured state.                        *)
C8_WarmStartChain ==
    \A i \in 1..Len(argLog) :
        IF i = 1
        THEN /\ argLog[1].x0 = [var(cfg, 0) EXCEPT !.mean[0] = call.x0]
             /\ \A j \in DOMAIN argLog[1].lam_x0 : argLog[1].lam_x0[j] = 0
             /\ Len(argLog[1].lam_x0) = num_var(cfg)
             /\ argLog[1].lam_g0 = <<0>>
        ELSE /\ argLog[i].x0 = [solLog[i - 1].x EXCEPT !.mean[0] = simLog[i - 1].out]
             /\ argLog[i].lam_x0 = solLog[i - 1].lam_x
             /\ argLog[i].lam_g0 = solLog[i - 1].lam_g

C8_Witness ==
    /\ Len(argLog) = 2
    /\ call.x0 = 1
    /\ solLog[1].x.mean[0] # simLog[1].out
    /\ argLog[2].x0.mean[0] = simLog[1].out
    /\ argLog[2].x0.v = solLog[1].x.v
    /\ argLog[2].lam_x0 # argLog[1].lam_x0

----------------------------------------------------------------------------
(* C9: the parameters of the solver call of step t are the measured state  *)
(* mean[t] (x0 at t = 0, else the plant output of step t-1), the control   *)
(* applied at step t-1 (the caller's u0, or zero, at t = 0) and the        *)
(* one-step-ahead covariance L[1] L[1]^T of the solution of step t-1       *)
(* (zero at t = 0).                                                        *)
C9_ParametersFollowMeasurement ==
    \A i \in 1..Len(argLog) :
        IF i = 1
        THEN /\ argLog[1].p.mean_0 = call.x0
             /\ argLog[1].p.u_0 = CallU0
             /\ argLog[1].p.covariance_0 = 0
        ELSE /\ argLog[i].p.mean_0 = simLog[i - 1].out
             /\ argLog[i].p.u_0 = simLog[i - 1].u
             /\ argLog[i].p.covariance_0 = solLog[i - 1].x.L[1] * solLog[i - 1].x.L[1]

C9_Witness ==
    /\ Len(argLog) = 2
    /\ argLog[2].p.mean_0 # call.x0
    /\ argLog[2].p.u_0 # CallU0
    /\ argLog[2].p.covariance_0 > 1

----------------------------------------------------------------------------
(* C10: an engine that has served earlier solve calls and a newly built    *)
(* engine, given the same call and the same solver and plant answers, are  *)
(* at the same point of the loop, hand the same inputs to the solver, hold *)
(* the same histories and return the same value; while the loop runs they  *)
(* also hold the same warm start and multipliers.                          *)
C10_ResetPerSolve ==
    /\ eng.pc = ref.pc
    /\ eng.err = ref.err
    /\ eng.loc = ref.loc
    /\ eng.ret = ref.ret
    /\ eng.x_sp = ref.x_sp
    /\ eng.Nsim = ref.Nsim
    /\ eng.mean = ref.mean
    /\ eng.mean_pred = ref.mean_pred
    /\ eng.covariance = ref.covariance
    /\ eng.u = ref.u
    /\ (Running \/ eng.pc \in {"done", "aborted"}) =>
          /\ eng.var_init = ref.var_init
          /\ eng.lam_x0 = ref.lam_x0
          /\ eng.lam_g0 = ref.lam_g0

(* A second run about to make its first solver call: the first-horizon     *)
(* snapshot of the earlier run is still in the engine.                     *)
C10_Witness ==
    /\ eng.pc = "solve"
    /\ eng.loc.t = 0
    /\ eng.var_prediction # ref.var_prediction
    /\ eng.loc.args = ref.loc.args
    /\ eng # ref

----------------------------------------------------------------------------
(* Properties of the GP model object (GpSpec) *)

(* C11: a set_method call with an unrecognized variant name raises and     *)
(* leaves the model unchanged; after any sequence of accepted and rejected *)
(* calls the recorded method name, the prediction function and both        *)
(* Jacobians belong to one variant, the last one accepted.                 *)
C11_NeverStale ==
    /\ gp.gp_method \in GpMethods
    /\ gp.predict = gp.gp_method
    /\ gp.discrete_jac_x = gp.gp_method
    /\ gp.discrete_jac_u = gp.gp_method
    /\ (gpcall.op = "set_method" /\ gpcall.args[1] \notin GpMethods) =>
          (gpcall.err # "" /\ gp = gpcall.before)

(* C12: predict standardizes the state before the selected prediction      *)
(* function is evaluated and de-standardizes the returned mean with the    *)
(* exact inverse when normalization is enabled, and applies neither        *)
(* transform when it is disabled; the covariance comes back as the         *)
(* prediction function returned it, u and the input covariance reach the   *)
(* prediction function as given, and the model object is not changed.      *)
C12_PredictPairsStandardization ==
    gpcall.op = "predict" =>
        LET g   == gpcall.before
            x   == gpcall.args[1]
            u   == gpcall.args[2]
            cov == gpcall.args[3]
            x_s == IF g.normalize THEN QDiv(QSub(x, g.meanY), g.stdY) ELSE x
            raw == PredictFn(g.predict, g.hyper, x_s, u, cov)
        IN  /\ gpcall.fn_in = <<x_s, u, cov>>
            /\ gpcall.mean = IF g.normalize
                             THEN QAdd(QMul(raw.mean, g.stdY), g.meanY)
                             ELSE raw.mean
            /\ g.normalize => QDiv(QSub(gpcall.mean, g.meanY), g.stdY) = raw.mean
            /\ gpcall.cov = raw.cov
            /\ gp = g

C12_Witness ==
    /\ gpcall.op = "predict"
    /\ gp.normalize
    /\ gp.meanY # QInt(0)
    /\ gp.stdY # QInt(1)
    /\ gpcall.fn_in[1] # gpcall.args[1]
    /\ gpcall.mean # PredictFn(gp.predict, gp.hyper, gpcall.fn_in[1],
                               gpcall.args[2], gpcall.args[3]).mean
    /\ gpcall.args[3] # QInt(0)

(* C13: with normalization enabled, discrete_linearize standardizes x0     *)
(* before differentiating and returns the Jacobians of predict's           *)
(* de-standardized mean with respect to the raw state and the raw input:   *)
(* by the chain rule the state Jacobian of the standardized model at the   *)
(* standardized x0, and stdY times its input Jacobian there.               *)
C13_LinearizeStandardized ==
    (gpcall.op = "discrete_linearize" /\ gpcall.before.normalize) =>
        LET g    == gpcall.before
            x0   == gpcall.args[1]
            u0   == gpcall.args[2]
            cov0 == gpcall.args[3]
            x_s  == QDiv(QSub(x0, g.meanY), g.stdY)
        IN  /\ gpcall.fn_in = <<x_s, u0, cov0>>
            /\ gpcall.Ad = QMul(QMul(g.stdY, JacX(g.predict, g.hyper, x_s, u0, cov0)),
                                QDiv(QInt(1), g.stdY))
            /\ gpcall.Bd = QMul(g.stdY, JacU(g.predict, g.hyper, x_s, u0, cov0))

(* C14: the model load_model builds from what save_model wrote has the     *)
(* same training data, the same standardization statistics and the same   *)
(* hyper-parameters as the saved one, and its predict returns the same     *)
(* mean and covariance for every input, with normalization enabled too.    *)
C14_RoundTrip ==
    gpcall.op = "load_model" =>
        LET m == gpcall.before
            l == gpcall.loaded
        IN  /\ gpcall.err = ""
            /\ l.X = m.X
            /\ l.Y = m.Y
            /\ l.meanY = m.meanY
            /\ l.stdY = m.stdY
            /\ l.hyper = m.hyper
            /\ \A x \in GpStates, u \in GpInputs, cov \in GpCovs :
                  /\ predict(l, x, u, cov).mean = predict(m, x, u, cov).mean
                  /\ predict(l, x, u, cov).cov = predict(m, x, u, cov).cov

----------------------------------------------------------------------------
(* Properties of the NLP built by MPC.__init__ (BuildSpec) *)

Built    == mpc.pc = "built"
RowsOf(seq, e) == {k \in DOMAIN seq : seq[k] = e}

(* Value of a covariance-like term when every entry of block L holds l. *)
RECURSIVE Eval(_, _)
Eval(e, l) ==
    CASE e[1] = "var"      -> l
      [] e[1] = "L_to_cov" -> L_to_cov(Eval(e[2], l))
      [] e[1] = "diag"     -> Eval(e[2], l)
      [] e[1] = "row"      -> Eval(e[3], l)

(* C15: a constructor call asking for exact discretization with an NLP     *)
(* expansion option that is not False, or naming an unknown cost function, *)
(* raises before the NLP solver object is created: no instance with a      *)
(* solver exists afterwards.                                               *)
C15_FailStop ==
    LET a == mpc.args
    IN  ( /\ mpc.pc # "none"
          /\ \/ (a.discrete_method = "exact" /\ a.solver_opts.expand # <<FALSE>>)
             \/ a.costFunc \notin {"quad", "sat"} )
        => (mpc.pc = "raised" /\ mpc.err # "" /\ ~mpc.solver)

C15_Witness ==
    /\ mpc.pc = "raised"
    /\ mpc.args.solver_opts.given
    /\ mpc.args.solver_opts.expand = <<FALSE>>
    /\ mpc.args.discrete_method # "exact"
    /\ mpc.args.costFunc = "XX"
    /\ mpc.err = "NameError"

(* C16, as stated: for every horizon step t and state i the NLP has        *)
(* exactly one upper-tail row mean_i + z diag(cov)_i <= xub_i and one      *)
(* lower-tail row mean_i - z diag(cov)_i >= xlb_i with cov = L L^T of      *)
(* that step's Cholesky factor.                                            *)
C16_MarginFromCovariance ==
    Built =>
        \A t \in 1..mpc.args.Nt :
            LET up == con_func(Var("mean", t), L_to_cov_func(Var("L", t)), 1, "quantile")
                lo == con_func(Var("mean", t), L_to_cov_func(Var("L", t)), 1, "-quantile")
            IN  /\ Cardinality(RowsOf(mpc.con_ineq, up)) = 1
                /\ Cardinality(RowsOf(mpc.con_ineq, lo)) = 1

(* C16, amended: the margin of both rows is z times the diagonal of the    *)
(* step's Cholesky factor L itself, which differs from the diagonal of     *)
(* L L^T; the upper row is bounded by xub_i only, the lower by xlb_i only. *)
C16_MarginFromFactor ==
    Built =>
        \A t \in 1..mpc.args.Nt :
            LET up == con_func(Var("mean", t), Var("L", t), 1, "quantile")
                lo == con_func(Var("mean", t), Var("L", t), 1, "-quantile")
                U  == RowsOf(mpc.con_ineq, up)
                D  == RowsOf(mpc.con_ineq, lo)
            IN  /\ Cardinality(U) = 1
                /\ Cardinality(D) = 1
                /\ \A k \in U : /\ mpc.con_ineq_ub[k] = xub(mpc.args)[1]
                                /\ mpc.con_ineq_lb[k] = NegInf
                                /\ \A l \in 0..2 : Eval(mpc.con_ineq[k][3][3], l) = l
                /\ \A k \in D : /\ mpc.con_ineq_lb[k] = xlb(mpc.args)[1]
                                /\ mpc.con_ineq_ub[k] = PosInf
                                /\ \A l \in 0..2 : Eval(mpc.con_ineq[k][3][3], l) = l
                /\ \E l \in 0..2 : Eval(<<"diag", L_to_cov_func(Var("L", t))>>, l) # l

C16_Witness ==
    /\ Built
    /\ mpc.args.Nt >= 2
    /\ mpc.args.xub # <<>>
    /\ Cardinality(RowsOf(mpc.con_ineq,
                           con_func(Var("mean", 2), Var("L", 2), 1, "-quantile"))) = 1

(* C17: for every step t in 0..Nt-1 the NLP has an equality row forcing    *)
(* the transition model's predicted next mean to mean[t+1] and one forcing *)
(* its predicted next covariance to L[t+1] L[t+1]^T; the equality bounds   *)
(* are all zero and as many as the equality rows, and in the assembled     *)
(* constraint vector and its bounds the equality rows come first, followed *)
(* by the inequality rows in the same order.                               *)
C17_Continuity ==
    Built =>
        LET n == Len(mpc.con_eq)
        IN  /\ \A t \in 0..(mpc.args.Nt - 1) :
                  LET k == 2 * t + 3
                  IN  /\ mpc.con_eq[k][1] = "sub"
                      /\ mpc.con_eq[k][2][2] = Var("mean", t)
                      /\ mpc.con_eq[k][3] = Var("mean", t + 1)
                      /\ mpc.con_eq[k + 1][1] = "sub"
                      /\ mpc.con_eq[k + 1][2] = covar_x_next_pred(mpc.args, t)
                      /\ mpc.con_eq[k + 1][3] = <<"L_to_cov", Var("L", t + 1)>>
            /\ Len(mpc.con_eq_lb) = n
            /\ Len(mpc.con_eq_ub) = n
            /\ \A k \in 1..n : mpc.con_eq_lb[k] = Fin(0) /\ mpc.con_eq_ub[k] = Fin(0)
            /\ Len(mpc.con) = n + Len(mpc.con_ineq)
            /\ Len(mpc.conlb) = Len(mpc.con)
            /\ Len(mpc.conub) = Len(mpc.con)
            /\ \A k \in 1..n : /\ mpc.con[k] = mpc.con_eq[k]
                               /\ mpc.conlb[k] = Fin(0)
                               /\ mpc.conub[k] = Fin(0)
            /\ \A k \in DOMAIN mpc.con_ineq :
                  /\ mpc.con[n + k] = mpc.con_ineq[k]
                  /\ mpc.conlb[n + k] = mpc.con_ineq_lb[k]
                  /\ mpc.conub[n + k] = mpc.con_ineq_ub[k]

C17_Witness ==
    /\ Built
    /\ mpc.args.Nt >= 2
    /\ mpc.args.discrete_method = "gp"
    /\ mpc.args.inequality_constraints
    /\ mpc.args.terminal_constraint # <<>>
    /\ Len(mpc.con_eq) = 6

C19_OnlyCholesky ==
    Built =>
        LET a == mpc.args
        IN  /\ DOMAIN mpc.varlb.covariance = {}
            /\ mpc.con_eq[2] = <<"sub", L_to_cov_func(Var("L", 0)), covariance_0_s>>
            /\ \A t \in 0..(a.Nt - 1) :
                  /\ mpc.obj[2 * t + 1] =
                        l_func(a, Var("mean", t), L_to_cov_func(Var("L", t)), u_t(a, t),
                               covar_u_func(L_to_cov_func(Var("L", t))), u_delta(a, t))
                  /\ mpc.con_eq[2 * t + 4][3] = L_to_cov_func(Var("L", t + 1))
            /\ mpc.obj[Len(mpc.obj)] =
                  lf_func(a, Var("mean", a.Nt), L_to_cov_func(Var("L", a.Nt)), P_s)

(* C20: in the quadratic stage cost of step t the input-rate term is       *)
(* du' S du with du = u_t - u_(t-1) for t >= 1 and du = u_0 minus the      *)
(* previous-control parameter for t = 0.                                   *)
C20_InputRate ==
    (Built /\ mpc.args.costFunc = "quad") =>
        \A t \in 0..(mpc.args.Nt - 1) :
            mpc.obj[2 * t + 1][4] =
                << "sqnorm_u",
                   <<"sub", u_t(mpc.args, t),
                            IF t = 0 THEN u_0_s ELSE u_t(mpc.args, t - 1)>>,
                   "S" >>

----------------------------------------------------------------------------
(* Properties of GP construction (GpSpec) *)

(* Statistics of the state column of a training input array *)
StateColumn(X) == [i \in DOMAIN X |-> X[i][1]]

(* C21, as stated: with normalization the constructor standardizes Y with  *)
(* the mean and standard deviation of the raw targets and the state column *)
(* of X with the mean and standard deviation of that column; the input     *)
(* column is not transformed and the caller's arrays are not modified.     *)
C21_StateByOwnStatistics ==
    (gpcall.op = "GP" /\ gpcall.args[3]) =>
        LET X  == gpcall.args[1]
            Y  == gpcall.args[2]
            mX == np_mean(StateColumn(X))
            sX == np_std(StateColumn(X))
        IN  /\ gp.meanY = np_mean(Y)
            /\ gp.stdY = np_std(Y)
            /\ \A i \in DOMAIN Y : gp.Y[i] = QDiv(QSub(Y[i], gp.meanY), gp.stdY)
            /\ \A i \in DOMAIN X : /\ gp.X[i][1] = QDiv(QSub(X[i][1], mX), sX)
                                   /\ gp.X[i][2] = X[i][2]
            /\ gpcall.caller = <<X, Y>>

(* C21, amended: the state column of X is standardized with the mean and   *)
(* standard deviation of the raw targets Y, the same statistics as Y; with *)
(* normalization disabled the stored data are the given data.              *)
C21_StateByTargetStatistics ==
    gpcall.op = "GP" =>
        LET X == gpcall.args[1]
            Y == gpcall.args[2]
        IN  /\ gp.meanY = np_mean(Y)
            /\ gp.stdY = np_std(Y)
            /\ gpcall.caller = <<X, Y>>
            /\ IF gpcall.args[3]
               THEN /\ \A i \in DOMAIN Y :
                         gp.Y[i] = QDiv(QSub(Y[i], gp.meanY), gp.stdY)
                    /\ \A i \in DOMAIN X :
                         /\ gp.X[i][1] = QDiv(QSub(X[i][1], gp.meanY), gp.stdY)
                         /\ gp.X[i][2] = X[i][2]
               ELSE gp.X = X /\ gp.Y = Y

C21_Witness ==
    /\ gpcall.op = "GP"
    /\ gpcall.args[3]
    /\ gp.normalize
    /\ np_mean(StateColumn(gpcall.args[1])) # gp.meanY
    /\ gp.meanY # QInt(0)
    /\ gp.X # gpcall.args[1]
    /\ gp.Y # gpcall.args[2]

----------------------------------------------------------------------------
(* Further properties of the NLP built by MPC.__init__ (BuildSpec) *)

(* Value of a term over blocks L[0] and covariance[0] and the covariance   *)
(* parameter, under the valuation z.                                       *)
RECURSIVE EvalInit(_, _)
EvalInit(e, z) ==
    CASE e[1] = "var"      -> IF e[2] = "L" THEN z.L ELSE z.covariance
      [] e[1] = "par"      -> z.covariance_0
      [] e[1] = "L_to_cov" -> L_to_cov(EvalInit(e[2], z))
      [] e[1] = "sub"      -> EvalInit(e[2], z) - EvalInit(e[3], z)

InitValuations == [L : 0..2, covariance : 0..2, covariance_0 : 0..2]

(* The equality rows of the built NLP in which the covariance parameter    *)
(* occurs.                                                                 *)
CovarianceParamRows ==
    {k \in DOMAIN mpc.con_eq : mpc.con_eq[k][1] = "sub" /\ mpc.con_eq[k][3] = covariance_0_s}

(* C22: the covariance parameter constrains the horizon's initial          *)
(* covariance: in every point that satisfies the equality rows on the      *)
(* parameter, the covariance L[0] L[0]^T used at step 0 by the transition  *)
(* model and the stage cost equals the covariance parameter.               *)
C22_ParameterPinsInitialCovariance ==
    Built =>
        /\ CovarianceParamRows # {}
        /\ covar_x_t(0) = L_to_cov_func(Var("L", 0))
        /\ \A z \in InitValuations :
              (\A k \in CovarianceParamRows : EvalInit(mpc.con_eq[k], z) = 0)
                  => EvalInit(covar_x_t(0), z) = z.covariance_0

(* C23: solver_opts is optional: a constructor call with solver_opts       *)
(* omitted, or with a dictionary that has no entry 'expand', succeeds (for *)
(* a known cost function and a discretization other than exact) and builds *)
(* the solver with the default options, expand = True among them.          *)
C23_SolverOptsOptional ==
    LET a == mpc.args
    IN  ( /\ mpc.pc # "none"
          /\ ~a.solver_opts.given \/ a.solver_opts.expand = <<>>
          /\ a.costFunc \in {"quad", "sat"}
          /\ a.discrete_method # "exact" )
        => (Built /\ mpc.solver /\ mpc.options.expand = <<TRUE>>)

----------------------------------------------------------------------------
(* Further properties of the solve loop (Spec) *)

====
